---- MODULE Spec2Model ----
(***************************************************************************)
(* The Knawat suppliers client: the Request base class ($fetch), the       *)
(* Suppliers class (Basic authentication) and the Products class (Bearer   *)
(* authentication with a token exchanged for a consumer key and secret),   *)
(* together with the process-wide config object they share.                *)
(*                                                                         *)
(* JavaScript values are tagged records, so that truthiness, template      *)
(* strings, JSON.stringify and querystring.stringify can be computed as    *)
(* the runtime computes them.  Every JavaScript function is an operator    *)
(* from a world (the heap and the network) to the world after the call;    *)
(* an action applies one public operation to the current world.            *)
(***************************************************************************)
EXTENDS Integers, Sequences, FiniteSets, TLC

VARIABLES
  objs,      \* the client instances: slot -> the fields of the object
  HEADERS,   \* config.HEADERS, the one object every instance's headers refers to
  config,    \* config.BASIC_USER and config.BASIC_PASS
  net,       \* the network: the requests the last operation handed to fetch, and
             \* per instance the number of requests posted to /token so far
  pending,   \* slot -> token exchanges in flight whose .then has not run
  result     \* how the last operation ended: returned, or the error thrown

vars == <<objs, HEADERS, config, net, pending, result>>

\* Bounds of the model: the instances constructed, and the token exchanges one
\* instance may start.
NInst == 2
MaxExchanges == 2

Inst == 1..NInst

-----------------------------------------------------------------------------
(* JavaScript values *)

Undefined == [t |-> "undefined"]
Null == [t |-> "null"]
PromiseObj == [t |-> "promise"]
Num(n) == [t |-> "number", v |-> n]
Str(s) == [t |-> "string", v |-> s]
\* An object literal: the sequence of its own properties, in insertion order.
Obj(props) == [t |-> "object", props |-> props]
Arr(elems) == [t |-> "array", elems |-> elems]

\* ToBoolean: !v is ~Truthy(v).
Truthy(v) ==
  CASE v.t = "undefined" -> FALSE
    [] v.t = "null" -> FALSE
    [] v.t = "number" -> v.v # 0
    [] v.t = "string" -> v.v # ""
    [] OTHER -> TRUE

\* `${v}` inside a template literal.
TemplateString(v) ==
  CASE v.t = "string" -> v.v
    [] v.t = "number" -> ToString(v.v)
    [] v.t = "undefined" -> "undefined"
    [] v.t = "null" -> "null"
    [] v.t = "promise" -> "[object Promise]"
    [] OTHER -> "[object Object]"

-----------------------------------------------------------------------------
(* Buffer.from(string).toString('base64') *)

\* An environment string is a sequence of one-character strings.
EnvStr(chars) == [t |-> "string", chars |-> chars]
EnvTruthy(v) == v.t = "string" /\ Len(v.chars) > 0

\* The UTF-8 code of the characters the credentials are made of.
CharCode(c) ==
  CASE c = ":" -> 58
    [] c = "a" -> 97
    [] c = "b" -> 98
    [] c = "p" -> 112
    [] c = "q" -> 113
    [] c = "u" -> 117

Utf8(chars) == [k \in 1..Len(chars) |-> CharCode(chars[k])]

Base64Alphabet ==
  << "A","B","C","D","E","F","G","H","I","J","K","L","M","N","O","P",
     "Q","R","S","T","U","V","W","X","Y","Z","a","b","c","d","e","f",
     "g","h","i","j","k","l","m","n","o","p","q","r","s","t","u","v",
     "w","x","y","z","0","1","2","3","4","5","6","7","8","9","+","/" >>

Sextet(n) == Base64Alphabet[n + 1]

RECURSIVE Base64(_)
Base64(bytes) ==
  IF Len(bytes) = 0 THEN ""
  ELSE IF Len(bytes) = 1 THEN
    Sextet(bytes[1] \div 4) \o Sextet((bytes[1] % 4) * 16) \o "=="
  ELSE IF Len(bytes) = 2 THEN
    Sextet(bytes[1] \div 4)
      \o Sextet((bytes[1] % 4) * 16 + bytes[2] \div 16)
      \o Sextet((bytes[2] % 16) * 4) \o "="
  ELSE
    Sextet(bytes[1] \div 4)
      \o Sextet((bytes[1] % 4) * 16 + bytes[2] \div 16)
      \o Sextet((bytes[2] % 16) * 4 + bytes[3] \div 64)
      \o Sextet(bytes[3] % 64)
      \o Base64(SubSeq(bytes, 4, Len(bytes)))

\* Buffer.from(`${user}:${pass}`).toString('base64')
BasicAuth(user, pass) == Base64(Utf8(user.chars \o <<":">> \o pass.chars))

-----------------------------------------------------------------------------
(* querystring.stringify and JSON.stringify *)

\* querystring's conversion of one value: primitives as text, anything else as ''.
StringifyPrimitive(v) ==
  CASE v.t = "string" -> v.v
    [] v.t = "number" -> ToString(v.v)
    [] OTHER -> ""

\* querystring.stringify(obj) as the sequence of its key=value pairs, one per own
\* property of obj (none of the values modelled is an array).
QueryPairs(props) ==
  [k \in 1..Len(props) |-> <<props[k][1], StringifyPrimitive(props[k][2])>>]

RECURSIVE JoinPairs(_)
JoinPairs(pairs) ==
  IF Len(pairs) = 0 THEN ""
  ELSE pairs[1][1] \o "=" \o pairs[1][2]
         \o (IF Len(pairs) > 1 THEN "&" \o JoinPairs(Tail(pairs)) ELSE "")

QueryKeys(pairs) == {pairs[k][1] : k \in 1..Len(pairs)}

RECURSIVE JSONstringify(_)
RECURSIVE JSONmembers(_)
RECURSIVE JSONelements(_)
\* JSON.stringify(v): a string value, or undefined when v is undefined.
JSONstringify(v) ==
  CASE v.t = "undefined" -> Undefined
    [] v.t = "null" -> Str("null")
    [] v.t = "number" -> Str(ToString(v.v))
    [] v.t = "string" -> Str("\"" \o v.v \o "\"")
    [] v.t = "object" -> Str("{" \o JSONmembers(v.props) \o "}")
    [] v.t = "array" -> Str("[" \o JSONelements(v.elems) \o "]")
    [] OTHER -> Str("{}")

\* The members of an object: a property whose value is undefined is left out.
JSONmembers(props) ==
  IF Len(props) = 0 THEN ""
  ELSE LET rest == JSONmembers(Tail(props))
           one == JSONstringify(props[1][2])
       IN IF one.t = "undefined" THEN rest
          ELSE "\"" \o props[1][1] \o "\":" \o one.v
                 \o (IF rest = "" THEN "" ELSE "," \o rest)

\* The elements of an array: an undefined element is written null.
JSONelements(elems) ==
  IF Len(elems) = 0 THEN ""
  ELSE LET one == JSONstringify(elems[1])
       IN (IF one.t = "undefined" THEN "null" ELSE one.v)
            \o (IF Len(elems) > 1 THEN "," \o JSONelements(Tail(elems)) ELSE "")

-----------------------------------------------------------------------------
(* Objects and the world *)

\* Object literals: own properties as <<key, value>> pairs.
Get(props, key) ==
  IF \E k \in 1..Len(props) : props[k][1] = key
  THEN props[CHOOSE k \in 1..Len(props) : props[k][1] = key][2]
  ELSE Undefined

Keys(props) == {props[k][1] : k \in 1..Len(props)}

IsOwn(p, props) == p[1] \in Keys(props)
Override(p, props) == IF IsOwn(p, props) THEN <<p[1], Get(props, p[1])>> ELSE p

\* {...a, ...b}
Spread(a, b) ==
  [k \in 1..Len(a) |-> Override(a[k], b)]
    \o SelectSeq(b, LAMBDA p : ~IsOwn(p, a))

\* A slot no instance has been constructed in.
NoObject ==
  [class |-> "none", headers |-> "none", authentication |-> "none",
   consumerKey |-> Undefined, consumerSecret |-> Undefined,
   myToken |-> Undefined, tokenArg |-> Undefined]

\* The fields the Request constructor initialises.  headers holds a reference to
\* the config.HEADERS object, not a copy of it.  tokenArg is a history field: the
\* token argument the constructor was called with.
RequestFields(class) ==
  [class |-> class, headers |-> "config.HEADERS", authentication |-> "Bearer",
   consumerKey |-> Undefined, consumerSecret |-> Undefined,
   myToken |-> Undefined, tokenArg |-> Undefined]

\* The world an operation starts in: it has handed nothing to fetch yet.
World ==
  [objs |-> objs, HEADERS |-> HEADERS, config |-> config,
   net |-> [net EXCEPT !.requests = <<>>], pending |-> pending, thrown |-> ""]

Throw(w, message) == [w EXCEPT !.thrown = message]

\* this.headers[name] = value, on the object this.headers refers to.
SetHeader(w, i, name, value) ==
  IF w.objs[i].headers = "config.HEADERS"
  THEN [w EXCEPT !.HEADERS = (name :> value) @@ w.HEADERS]
  ELSE w

AuthorizationOf(headers) ==
  IF "authorization" \in DOMAIN headers THEN headers["authorization"] ELSE ""

-----------------------------------------------------------------------------
(* Request.$fetch *)

ToUpperCase(method) ==
  CASE method = "get" -> "GET"
    [] method = "post" -> "POST"
    [] OTHER -> method

BasicError == "no a valid Username and Password"
ConfigError == "Not a valid consumerKey and consumerSecret or token"

\* node-fetch's fetch(url, init): the request goes out with init.method, the
\* headers init.headers refers to as they are now, and init.body when there is
\* one; any other key of init is ignored.  by and path name the call it was made
\* for; tokens counts, per instance, the requests posted to /token.
NodeFetch(w, i, by, path, url, query, init) ==
  [w EXCEPT !.net =
     [requests |-> Append(w.net.requests,
                     [inst |-> i, by |-> by, path |-> path,
                      method |-> Get(init, "method").v,
                      url |-> url, query |-> query,
                      headers |-> w.HEADERS,
                      body |-> Get(init, "body"),
                      init |-> Keys(init)]),
      tokens |-> [w.net.tokens EXCEPT
                    ![i] = @ + (IF path = "/token" THEN 1 ELSE 0)]]]

\* The mutant of Authenticate for C4: the Basic header is computed once, and
\* reused while the headers hold one.
AuthenticateCached(w, i) ==
  LET user == w.config.BASIC_USER
      pass == w.config.BASIC_PASS
  IN IF w.objs[i].authentication = "Basic"
     THEN IF ~EnvTruthy(user) \/ ~EnvTruthy(pass)
          THEN Throw(w, BasicError)
          ELSE IF AuthorizationOf(w.HEADERS) = ""
            THEN SetHeader(w, i, "authorization", "Basic " \o BasicAuth(user, pass))
            ELSE w
     ELSE w

\* The mutant of Authenticate for C5: the header is written before the
\* credentials are checked.
AuthenticateWriteFirst(w, i) ==
  LET user == w.config.BASIC_USER
      pass == w.config.BASIC_PASS
  IN IF w.objs[i].authentication = "Basic"
     THEN IF ~EnvTruthy(user) \/ ~EnvTruthy(pass)
          THEN Throw(SetHeader(w, i, "authorization", "Basic "), BasicError)
          ELSE SetHeader(w, i, "authorization", "Basic " \o BasicAuth(user, pass))
     ELSE w

\* $fetch, the authentication step: in Basic mode the header is computed from the
\* configured user and password and stored in this.headers, or the call throws.
Authenticate(w, i) ==
  LET user == w.config.BASIC_USER
      pass == w.config.BASIC_PASS
  IN IF w.objs[i].authentication = "Basic"
     THEN IF ~EnvTruthy(user) \/ ~EnvTruthy(pass)
          THEN Throw(w, BasicError)
          ELSE SetHeader(w, i, "authorization", "Basic " \o BasicAuth(user, pass))
     ELSE w

\* The mutant of Dispatch for C8: the options are merged into the request
\* configuration whatever the method.
DispatchAlwaysMerge(w, i, by, method, path, options) ==
  LET fetchOptions ==
        << <<"method", Str(method)>>, <<"headers", Str(w.objs[i].headers)>> >>
      url == w.config.SUPPLIERS_API_URL \o path
  IN IF ToUpperCase(method) = "GET" /\ Len(options) > 0
     THEN NodeFetch(w, i, by, path, url \o "?" \o JoinPairs(QueryPairs(options)),
                    QueryPairs(options), Spread(fetchOptions, options))
     ELSE NodeFetch(w, i, by, path, url, <<>>, Spread(fetchOptions, options))

\* $fetch, the request: the options of a GET go to the query string, those of any
\* other method are merged into the request configuration.
Dispatch(w, i, by, method, path, options) ==
  LET fetchOptions ==
        << <<"method", Str(method)>>, <<"headers", Str(w.objs[i].headers)>> >>
      url == w.config.SUPPLIERS_API_URL \o path
  IN IF ToUpperCase(method) = "GET" /\ Len(options) > 0
     THEN NodeFetch(w, i, by, path, url \o "?" \o JoinPairs(QueryPairs(options)),
                    QueryPairs(options), fetchOptions)
     ELSE NodeFetch(w, i, by, path, url, <<>>, Spread(fetchOptions, options))

\* $fetch(method, path, options = {}), called on instance i for the call by.
Fetch(w, i, by, method, path, options) ==
  LET w1 == Authenticate(w, i)
  IN IF w1.thrown # "" THEN w1 ELSE Dispatch(w1, i, by, method, path, options)

-----------------------------------------------------------------------------
(* Products: the token *)

Call(op, args) == [op |-> op, args |-> args]

\* refreshToken(): posts the key and secret; the .then that stores the token runs
\* when the response arrives (TokenThen).  Returns the promise.
RefreshToken(w, i) ==
  LET self == w.objs[i]
      body == JSONstringify(Obj(<< <<"key", self.consumerKey>>,
                                   <<"secret", self.consumerSecret>> >>))
      w1 == Fetch(w, i, Call("refreshToken", <<>>), "POST", "/token",
                  << <<"body", body>> >>)
  IN IF w1.thrown # "" THEN [w |-> w1, ret |-> Undefined]
     ELSE [w |-> [w1 EXCEPT !.pending[i] = @ + 1], ret |-> PromiseObj]

\* The mutant of TokenGet for C1: the getter does not look at the memoized token.
TokenGetNoMemo(w, i) == RefreshToken(w, i)

\* get token()
TokenGet(w, i) ==
  IF ~Truthy(w.objs[i].myToken)
  THEN RefreshToken(w, i)
  ELSE [w |-> w, ret |-> w.objs[i].myToken]

\* The mutant of TokenSet for C3: the token is memoized and the header is left
\* for the first request to write.
TokenSetNoHeader(w, i, val) ==
  LET got == IF ~Truthy(val) THEN TokenGet(w, i) ELSE [w |-> w, ret |-> val]
  IN IF got.w.thrown # "" THEN got.w
     ELSE [got.w EXCEPT !.objs[i].myToken = got.ret]

\* set token(val)
TokenSet(w, i, val) ==
  LET got == IF ~Truthy(val) THEN TokenGet(w, i) ELSE [w |-> w, ret |-> val]
  IN IF got.w.thrown # "" THEN got.w
     ELSE SetHeader([got.w EXCEPT !.objs[i].myToken = got.ret], i,
                    "authorization", "Bearer " \o TemplateString(got.ret))

\* The callback refreshToken chains on the parsed response:
\* ({ user }) => { this.token = user.token; return user.token; }
TokenThen(w, i, response) ==
  IF response.t # "object" THEN Throw(w, "TypeError")
  ELSE LET user == Get(response.props, "user")
       IN IF user.t # "object" THEN Throw(w, "TypeError")
          ELSE TokenSet(w, i, Get(user.props, "token"))

\* constructor({ key, secret, token }) of Products.  When it throws, the object
\* under construction is unreachable and the slot stays free.
NewProducts(w, i, key, secret, token) ==
  IF (~Truthy(key) \/ ~Truthy(secret)) /\ ~Truthy(token)
  THEN Throw(w, ConfigError)
  ELSE TokenSet([w EXCEPT !.objs[i] =
                   [RequestFields("Products") EXCEPT
                      !.consumerKey = key, !.consumerSecret = secret,
                      !.tokenArg = token]],
                i, token)

\* constructor() of Suppliers
NewSuppliers(w, i) ==
  [w EXCEPT !.objs[i] = [RequestFields("Suppliers") EXCEPT !.authentication = "Basic"]]

-----------------------------------------------------------------------------
(* Products: the resource methods *)

\* A destructuring default applies to a property that is undefined.
Default(v, d) == IF v.t = "undefined" THEN d ELSE v

UpdateSupplier(w, i, supplier) ==
  Fetch(w, i, Call("updateSupplier", <<supplier>>), "PUT", "/suppliers",
        << <<"supplier", supplier>> >>)

FilterFields ==
  << "limit", "page", "qualified", "category_id", "keyword", "stock", "price",
     "sort_by", "sort_asc", "language" >>

FilterDefault(name) ==
  CASE name = "limit" -> Num(10)
    [] name = "page" -> Num(1)
    [] name = "language" -> Str("tr")
    [] OTHER -> Null

\* The object getProducts destructures: its argument, or {} when it is undefined.
Destructured(arg) == IF arg.t = "undefined" THEN <<>> ELSE arg.props

\* The mutant of NullFiltered for C7: every falsy value is dropped, not only null.
FalsyFiltered(queryParams) == SelectSeq(queryParams, LAMBDA o : Truthy(o[2]))

\* Object.entries(queryParams).forEach(o => (o[1] === null ? delete ... : 0))
NullFiltered(queryParams) == SelectSeq(queryParams, LAMBDA o : o[2].t # "null")

GetProducts(w, i, arg) ==
  LET given == Destructured(arg)
      queryParams ==
        [k \in 1..Len(FilterFields) |->
           <<FilterFields[k],
             Default(Get(given, FilterFields[k]), FilterDefault(FilterFields[k]))>>]
  IN Fetch(w, i, Call("getProducts", <<arg>>), "GET", "/catalog/products",
           NullFiltered(queryParams))

GetProductBySku(w, i, sku) ==
  Fetch(w, i, Call("getProductBySku", <<sku>>), "GET",
        "/catalog/products/" \o TemplateString(sku), <<>>)

AddProducts(w, i, products) ==
  Fetch(w, i, Call("addProducts", <<products>>), "POST", "/catalog/products",
        << <<"body", JSONstringify(Obj(<< <<"products", products>> >>))>> >>)

UpdateProductBySku(w, i, sku, data) ==
  Fetch(w, i, Call("updateProductBySku", <<sku, data>>), "PUT",
        "/catalog/update/" \o TemplateString(sku),
        << <<"body", JSONstringify(Obj(<< <<"data", data>> >>))>> >>)

UpdateBulkProduct(w, i, data) ==
  Fetch(w, i, Call("updateBulkProduct", <<data>>), "PATCH", "/catalog/products",
        << <<"body", JSONstringify(data)>> >>)

\* parentId && parentId > 0, for a number, null or undefined.
Positive(v) == Truthy(v) /\ v.t = "number" /\ v.v > 0

GetCategories(w, i, arg) ==
  LET given == Destructured(arg)
      parentId == Default(Get(given, "parentId"), Null)
      level == Default(Get(given, "level"), Null)
      queryParams ==
        (IF Positive(parentId) THEN << <<"parentId", parentId>> >> ELSE <<>>)
          \o (IF Positive(level) THEN << <<"level", level>> >> ELSE <<>>)
  IN Fetch(w, i, Call("getCategories", <<arg>>), "GET", "/catalog/categories",
           queryParams)

GetOrders(w, i, limit, page) ==
  LET params == JoinPairs(QueryPairs(<< <<"limit", Default(limit, Num(25))>>,
                                        <<"page", Default(page, Num(1))>> >>))
  IN Fetch(w, i, Call("getOrders", <<limit, page>>), "GET", "/orders?" \o params,
           <<>>)

GetOrderById(w, i, id) ==
  Fetch(w, i, Call("getOrderById", <<id>>), "GET", "/orders/" \o TemplateString(id),
        <<>>)

CancelOrder(w, i, id) ==
  Fetch(w, i, Call("cancelOrder", <<id>>), "DELETE",
        "/orders/" \o TemplateString(id), <<>>)

CreateOrder(w, i, data) ==
  Fetch(w, i, Call("createOrder", <<data>>), "POST", "/orders",
        << <<"body", JSONstringify(data)>> >>)

UpdateOrder(w, i, orderId, data) ==
  Fetch(w, i, Call("updateOrder", <<orderId, data>>), "PUT",
        "/orders/" \o TemplateString(orderId),
        << <<"body", JSONstringify(data)>> >>)

-----------------------------------------------------------------------------
(* Suppliers: the resource methods *)

GetSuppliers(w, i) ==
  Fetch(w, i, Call("getSuppliers", <<>>), "GET", "/suppliers", <<>>)

CreateSupplier(w, i, supplier) ==
  Fetch(w, i, Call("createSupplier", <<supplier>>), "POST", "/suppliers",
        << <<"supplier", supplier>> >>)

GetSupplierKeys(w, i, id) ==
  Fetch(w, i, Call("getSupplierKeys", <<id>>), "GET",
        "/suppliers/" \o TemplateString(id) \o "/keys", <<>>)

-----------------------------------------------------------------------------
(* Inputs *)

\* The key and secret given to the Products constructor.
KeyArgs == {<<Undefined, Undefined>>, <<Str("k"), Undefined>>, <<Str("k"), Str("s")>>}
TokenArgs == {Undefined, Str("t1")}
\* A token assigned from outside: p.token = val.
AssignedTokens == {Undefined, Str("t2")}

\* What the token endpoint may answer: a token, an empty token, an error body
\* without user.
TokenResponses ==
  { Obj(<< <<"user", Obj(<< <<"token", Str("t2")>> >>)>> >>),
    Obj(<< <<"user", Obj(<< <<"token", Str("")>> >>)>> >>),
    Obj(<< <<"message", Str("Unauthorized")>> >>) }

\* BASIC_USER and BASIC_PASS: unset, empty, or set.
Credentials ==
  { <<Undefined, EnvStr(<<"p">>)>>, <<EnvStr(<<"u">>), EnvStr(<<>>)>>,
    <<EnvStr(<<"u">>), EnvStr(<<"p">>)>>, <<EnvStr(<<"a", "b">>), EnvStr(<<"p", "q">>)>> }

Ids == {Str("abc")}
Payloads == {Obj(<< <<"foo", Num(1)>> >>), Arr(<<Num(1)>>)}
SupplierPayloads == {Obj(<< <<"name", Str("john")>> >>)}

\* Arguments of getProducts and getCategories for the main specification.
FilterArgs ==
  { Undefined,
    Obj(<< <<"keyword", Str("")>>, <<"limit", Num(0)>> >>),
    Obj(<< <<"limit", Null>>, <<"page", Null>>, <<"language", Null>> >>) }
CategoryArgs == {Undefined, Obj(<< <<"parentId", Num(5)>> >>)}
PageArgs == {Undefined, Num(2)}

-----------------------------------------------------------------------------
(* The state machine *)

\* The process after config.js is loaded: no instance yet, the default headers,
\* the development base URL (KNAWAT_ENV is not 'production'), and whatever
\* BASIC_USER and BASIC_PASS the environment holds.
Init ==
  /\ objs = [i \in Inst |-> NoObject]
  /\ HEADERS = ("Content-Type" :> "application/json")
  /\ \E c \in Credentials :
       config = [SUPPLIERS_API_URL |-> "https://dev.suppliers.knawat.io/api",
                 BASIC_USER |-> c[1], BASIC_PASS |-> c[2]]
  /\ net = [requests |-> <<>>, tokens |-> [i \in Inst |-> 0]]
  /\ pending = [i \in Inst |-> 0]
  /\ result = "returned"

\* The world after an operation becomes the state.
Commit(w) ==
  /\ \A i \in Inst : w.net.tokens[i] <= MaxExchanges
  /\ objs' = w.objs
  /\ HEADERS' = w.HEADERS
  /\ config' = w.config
  /\ net' = w.net
  /\ pending' = w.pending
  /\ result' = IF w.thrown = "" THEN "returned" ELSE w.thrown

\* Instances take the slots in order.
Free(i) == objs[i].class = "none" /\ \A j \in Inst : j < i => objs[j].class # "none"
IsProducts(i) == objs[i].class = "Products"
IsSuppliers(i) == objs[i].class = "Suppliers"

ConstructProducts ==
  \E i \in Inst, ks \in KeyArgs, token \in TokenArgs :
    Free(i) /\ Commit(NewProducts(World, i, ks[1], ks[2], token))

ConstructSuppliers ==
  \E i \in Inst : Free(i) /\ Commit(NewSuppliers(World, i))

\* config.BASIC_USER and config.BASIC_PASS are assigned; an assignment returns.
Configure ==
  \E c \in Credentials :
    /\ Commit([World EXCEPT !.config.BASIC_USER = c[1], !.config.BASIC_PASS = c[2]])
    /\ result' = "returned"

\* p.token = val, from outside the class.
AssignToken ==
  \E i \in Inst, val \in AssignedTokens :
    IsProducts(i) /\ Commit(TokenSet(World, i, val))

\* The response of a token exchange arrives and refreshToken's callback runs.
TokenResponse ==
  \E i \in Inst, response \in TokenResponses :
    /\ pending[i] > 0
    /\ Commit(TokenThen([World EXCEPT !.pending[i] = @ - 1], i, response))

\* A token exchange fails (connection error, or a body that is not JSON): the
\* promise is rejected and the callback never runs.
TokenFailure ==
  \E i \in Inst :
    /\ pending[i] > 0
    /\ Commit(Throw([World EXCEPT !.pending[i] = @ - 1], "FetchError"))

CallUpdateSupplier ==
  \E i \in Inst, supplier \in SupplierPayloads :
    IsProducts(i) /\ Commit(UpdateSupplier(World, i, supplier))

CallGetProducts ==
  \E i \in Inst, arg \in FilterArgs :
    IsProducts(i) /\ Commit(GetProducts(World, i, arg))

CallGetProductBySku ==
  \E i \in Inst, sku \in Ids : IsProducts(i) /\ Commit(GetProductBySku(World, i, sku))

CallAddProducts ==
  \E i \in Inst, products \in Payloads :
    IsProducts(i) /\ Commit(AddProducts(World, i, products))

CallUpdateProductBySku ==
  \E i \in Inst, sku \in Ids, data \in Payloads :
    IsProducts(i) /\ Commit(UpdateProductBySku(World, i, sku, data))

CallUpdateBulkProduct ==
  \E i \in Inst, data \in Payloads :
    IsProducts(i) /\ Commit(UpdateBulkProduct(World, i, data))

CallGetCategories ==
  \E i \in Inst, arg \in CategoryArgs :
    IsProducts(i) /\ Commit(GetCategories(World, i, arg))

CallGetOrders ==
  \E i \in Inst, limit \in PageArgs :
    IsProducts(i) /\ Commit(GetOrders(World, i, limit, Undefined))

CallGetOrderById ==
  \E i \in Inst, id \in Ids : IsProducts(i) /\ Commit(GetOrderById(World, i, id))

CallCancelOrder ==
  \E i \in Inst, id \in Ids : IsProducts(i) /\ Commit(CancelOrder(World, i, id))

CallCreateOrder ==
  \E i \in Inst, data \in Payloads :
    IsProducts(i) /\ Commit(CreateOrder(World, i, data))

CallUpdateOrder ==
  \E i \in Inst, id \in Ids, data \in Payloads :
    IsProducts(i) /\ Commit(UpdateOrder(World, i, id, data))

CallGetSuppliers ==
  \E i \in Inst : IsSuppliers(i) /\ Commit(GetSuppliers(World, i))

CallCreateSupplier ==
  \E i \in Inst, supplier \in SupplierPayloads :
    IsSuppliers(i) /\ Commit(CreateSupplier(World, i, supplier))

CallGetSupplierKeys ==
  \E i \in Inst, id \in Ids : IsSuppliers(i) /\ Commit(GetSupplierKeys(World, i, id))

Next ==
  \/ ConstructProducts
  \/ ConstructSuppliers
  \/ Configure
  \/ AssignToken
  \/ TokenResponse
  \/ TokenFailure
  \/ CallUpdateSupplier
  \/ CallGetProducts
  \/ CallGetProductBySku
  \/ CallAddProducts
  \/ CallUpdateProductBySku
  \/ CallUpdateBulkProduct
  \/ CallGetCategories
  \/ CallGetOrders
  \/ CallGetOrderById
  \/ CallCancelOrder
  \/ CallCreateOrder
  \/ CallUpdateOrder
  \/ CallGetSuppliers
  \/ CallCreateSupplier
  \/ CallGetSupplierKeys

Spec == Init /\ [][Next]_vars

-----------------------------------------------------------------------------
(* The query of getProducts and getCategories, over all their arguments *)

\* The values one filter field of getProducts is called with: left out, null, and
\* a value of the documented kind, falsy where the kind has one.
FilterArgSets ==
  [limit : {Undefined, Null, Num(0)},
   page : {Undefined, Null, Num(2)},
   qualified : {Null, Num(1)},
   category_id : {Undefined, Str("")},
   keyword : {Undefined, Null, Str("mavi")},
   stock : {Undefined, Obj(<< <<"stock_from", Num(12)>> >>)},
   price : {Null, Num(0)},
   sort_by : {Undefined, Str("name")},
   sort_asc : {Null, Num(-1)},
   language : {Undefined, Null, Str("")}]

AllFilterArgs ==
  {Undefined} \cup
    { Obj([k \in 1..Len(FilterFields) |-> <<FilterFields[k], f[FilterFields[k]]>>]) :
        f \in FilterArgSets }

CategoryValues == {Undefined, Null, Num(0), Num(-1), Num(5)}
AllCategoryArgs ==
  {Undefined} \cup
    { Obj(<< <<"parentId", a>>, <<"level", b>> >>) :
        a \in CategoryValues, b \in CategoryValues }

\* A Products instance constructed with a token, before its first call.
InitQuery ==
  /\ config = [SUPPLIERS_API_URL |-> "https://dev.suppliers.knawat.io/api",
               BASIC_USER |-> Undefined, BASIC_PASS |-> Undefined]
  /\ LET w == NewProducts(
                [objs |-> [i \in Inst |-> NoObject],
                 HEADERS |-> ("Content-Type" :> "application/json"),
                 config |-> config,
                 net |-> [requests |-> <<>>, tokens |-> [i \in Inst |-> 0]],
                 pending |-> [i \in Inst |-> 0], thrown |-> ""],
                1, Undefined, Undefined, Str("t1"))
     IN /\ objs = w.objs
        /\ HEADERS = w.HEADERS
        /\ net = w.net
        /\ pending = w.pending
  /\ result = "returned"

QueryGetProducts ==
  /\ net.requests = <<>>
  /\ \E arg \in AllFilterArgs : Commit(GetProducts(World, 1, arg))

QueryGetCategories ==
  /\ net.requests = <<>>
  /\ \E arg \in AllCategoryArgs : Commit(GetCategories(World, 1, arg))

NextQuery ==
  \/ QueryGetProducts
  \/ QueryGetCategories

SpecQuery == InitQuery /\ [][NextQuery]_vars

-----------------------------------------------------------------------------
(* The claims *)

\* The requests an operation handed to fetch.
SentIn(n) == {n.requests[k] : k \in 1..Len(n.requests)}
Sent == SentIn(net)
Authorization(r) == AuthorizationOf(r.headers)
ResourceRequest(r) == r.path # "/token"
\* Instance i holds a non-empty token string.
HoldsToken(i) ==
  IsProducts(i) /\ objs[i].myToken.t = "string" /\ objs[i].myToken.v # ""
\* Instance i was constructed without a token.
NoTokenGiven(i) == IsProducts(i) /\ ~Truthy(objs[i].tokenArg)
\* The headers object instance i's headers field refers to.
HeadersOf(i) == IF objs[i].headers = "config.HEADERS" THEN HEADERS ELSE <<>>
\* The token strings a constructor, an assignment or the token endpoint supplies.
TokenStrings == {"t1", "t2"}

\* C1: for a Products instance constructed with key and secret and no token,
\* exactly one request has been posted to /token in total, in every state after
\* its construction: whatever calls, responses and assignments follow, and while
\* the exchange is still pending, no second exchange is issued.
C1_OneTokenExchange ==
  \A i \in Inst : NoTokenGiven(i) => net.tokens[i] = 1

\* A resource call of such an instance went out while its exchange was pending.
C1_Witness ==
  \E i \in Inst :
    /\ NoTokenGiven(i)
    /\ pending[i] > 0
    /\ net.tokens[i] = 1
    /\ \E r \in Sent : r.inst = i /\ ResourceRequest(r)

\* C2: once a Products instance holds a non-empty token t, every request it then
\* issues to a resource endpoint carries Authorization: Bearer t, and the call
\* changes neither the memoized token nor the header.
C2_TokenReused ==
  [][\A i \in Inst :
       (HoldsToken(i) /\ \E r \in SentIn(net') : r.inst = i /\ ResourceRequest(r))
         => /\ \A r \in SentIn(net') :
                 r.inst = i => Authorization(r) = "Bearer " \o objs[i].myToken.v
            /\ objs'[i].myToken = objs[i].myToken
            /\ HEADERS' = HEADERS]_vars

KnownBasic(user, pass) ==
  CASE user = EnvStr(<<"u">>) /\ pass = EnvStr(<<"p">>) -> "Basic dTpw"
    [] user = EnvStr(<<"a", "b">>) /\ pass = EnvStr(<<"p", "q">>) -> "Basic YWI6cHE="
    [] OTHER -> "none"

\* C4: every request of a Suppliers instance carries Authorization: Basic
\* base64(user:pass) of the user and password configured at the call, whatever
\* calls, credential changes and operations on other instances came before.
C4_BasicHeaderCurrent ==
  \A r \in Sent :
    IsSuppliers(r.inst)
      => Authorization(r) = KnownBasic(config.BASIC_USER, config.BASIC_PASS)

\* A Suppliers request under the second credentials, beside a Products instance
\* that has written its Bearer header.
C4_Witness ==
  \E r \in Sent :
    /\ IsSuppliers(r.inst)
    /\ Authorization(r) = "Basic YWI6cHE="
    /\ \E j \in Inst : HoldsToken(j)

\* C5: an operation that ends in the configuration error or the credentials error
\* has handed nothing to fetch and has changed neither the headers nor any
\* instance; no Products instance comes out of a construction without a token and
\* without key or secret, and no request of a Basic instance goes out while the
\* user or the password is unset.
C5_MissingCredentials ==
  [][/\ result' \in {ConfigError, BasicError}
          => /\ net'.requests = <<>>
             /\ net'.tokens = net.tokens
             /\ HEADERS' = HEADERS
             /\ objs' = objs
     /\ \A i \in Inst :
          objs'[i].class = "Products"
            => \/ Truthy(objs'[i].tokenArg)
               \/ Truthy(objs'[i].consumerKey) /\ Truthy(objs'[i].consumerSecret)
     /\ \A r \in SentIn(net') :
          objs'[r.inst].authentication = "Basic"
            => EnvTruthy(config'.BASIC_USER) /\ EnvTruthy(config'.BASIC_PASS)]_vars

\* A call of a Suppliers instance threw for want of credentials, after another
\* instance had written the authorization header.
C5_Witness ==
  /\ result = BasicError
  /\ net.requests = <<>>
  /\ \E i \in Inst : IsSuppliers(i)
  /\ ~EnvTruthy(config.BASIC_USER) \/ ~EnvTruthy(config.BASIC_PASS)
  /\ AuthorizationOf(HEADERS) = "Bearer t1"

\* C6: createSupplier posts to /suppliers and updateSupplier puts to /suppliers,
\* and the request's body is the JSON text of {supplier}.
C6_SupplierBody ==
  \A r \in Sent :
    /\ r.by.op = "createSupplier"
         => /\ r.method = "POST"
            /\ r.path = "/suppliers"
            /\ r.body = JSONstringify(Obj(<< <<"supplier", r.by.args[1]>> >>))
    /\ r.by.op = "updateSupplier"
         => /\ r.method = "PUT"
            /\ r.path = "/suppliers"
            /\ r.body = JSONstringify(Obj(<< <<"supplier", r.by.args[1]>> >>))

\* The filter fields whose value, after defaulting, is not null: a field given a
\* value other than null, or one of limit, page and language left out.
ExpectedKeys(arg) ==
  { f \in {FilterFields[k] : k \in 1..Len(FilterFields)} :
      LET v == Get(Destructured(arg), f)
      IN IF v.t = "undefined" THEN f \in {"limit", "page", "language"}
         ELSE v.t # "null" }

OptionKeys(op) ==
  CASE op \in {"updateSupplier", "createSupplier"} -> {"supplier"}
    [] op \in {"refreshToken", "addProducts", "updateProductBySku",
               "updateBulkProduct", "createOrder", "updateOrder"} -> {"body"}
    [] OTHER -> {}

\* The value a JSON text of the payloads deserializes to.
JSONparse(text) ==
  CASE text = "{\"foo\":1}" -> Obj(<< <<"foo", Num(1)>> >>)
    [] text = "[1]" -> Arr(<<Num(1)>>)
    [] OTHER -> Undefined

\* C8: a GET request has no body and no option key in its configuration, and its
\* options, when there are any, are in the query string of its URL; a request of
\* any other method has its options in its configuration and the URL base + path.
\* getOrderById is a GET without body; the body createOrder posts deserializes to
\* its argument.
C8_GetVersusOthers ==
  \A r \in Sent :
    /\ r.method = "GET"
         => /\ r.body = Undefined
            /\ r.init = {"method", "headers"}
            /\ r.url = config.SUPPLIERS_API_URL \o r.path
                         \o (IF r.query = <<>> THEN "" ELSE "?" \o JoinPairs(r.query))
    /\ (r.by.op = "getProducts" /\ r.by.args[1] = Undefined)
         => r.query = << <<"limit", "10">>, <<"page", "1">>, <<"language", "tr">> >>
    /\ r.method # "GET"
         => /\ r.url = config.SUPPLIERS_API_URL \o r.path
            /\ r.query = <<>>
            /\ r.init = {"method", "headers"} \cup OptionKeys(r.by.op)
    /\ r.by.op = "getOrderById"
         => /\ r.method = "GET"
            /\ r.body = Undefined
            /\ r.url = config.SUPPLIERS_API_URL \o "/orders/abc"
    /\ r.by.op = "createOrder"
         => /\ r.method = "POST"
            /\ r.body.t = "string"
            /\ JSONparse(r.body.v) = r.by.args[1]

\* A GET went out with options: they are in the query string.
C8_Witness ==
  \E r \in Sent :
    /\ r.method = "GET"
    /\ r.by.op = "getProducts"
    /\ Len(r.query) = 4
    /\ r.body = Undefined

\* C9: an operation on another instance (a call it makes, its construction, an
\* update of its token) leaves the Authorization header of a Products instance
\* holding token t at Bearer t.
C9_Isolated ==
  [][\A i, j \in Inst :
       ( /\ i # j
         /\ HoldsToken(i)
         /\ AuthorizationOf(HeadersOf(i)) = "Bearer " \o objs[i].myToken.v
         /\ objs'[i] = objs[i]
         /\ \A r \in SentIn(net') : r.inst # i
         /\ \/ objs'[j] # objs[j]
            \/ \E r \in SentIn(net') : r.inst = j )
         => AuthorizationOf(HeadersOf(i)')
              = "Bearer " \o objs[i].myToken.v]_vars

\* C10: every request a Products instance issues to a resource endpoint carries
\* Authorization: Bearer t for a token string t.
C10_ResourceRequestsBearToken ==
  \A r \in Sent :
    (IsProducts(r.inst) /\ ResourceRequest(r))
      => \E t \in TokenStrings : Authorization(r) = "Bearer " \o t

====
